---- MODULE Spec2Model ----
(***************************************************************************)
(* The calculator engine of hungrybluedev/calculator: the display          *)
(* formatter relevantPart, the token handlers and the display refresh,     *)
(* over the decimal.js values they compute with.                           *)
(*                                                                         *)
(* A JavaScript string is a sequence of one-character strings; a Decimal   *)
(* is a record [k, s, d, e]: k is "num", "inf", "nan" (or "err" for a      *)
(* constructor call that throws), s the sign, d the significant digits     *)
(* (no leading or trailing zero; <<0>> for zero) and e the exponent of     *)
(* the first digit, as in decimal.js.                                      *)
(***************************************************************************)
EXTENDS Integers, Sequences, FiniteSets, TLC

\* ------------------------------------------------------------------------
\* Program constants

MAX_DIGITS == 20
BUFFER == 4
EQUATION_PRECISION == 2
KBD_INPUT_DELAY == 50
\* Decimal.set({precision: MAX_DIGITS + BUFFER, rounding: ROUND_HALF_EVEN, toExpPos: 8})
PRECISION == MAX_DIGITS + BUFFER
TO_EXP_POS == 8
\* decimal.js's default, which Decimal.set leaves alone
TO_EXP_NEG == -7

OUT_OF_MEMORY == <<"O", "u", "t", " ", "o", "f", " ", "M", "e", "m", "o", "r", "y">>

TRUNCATION_TRIGGER == [i \in 1..(BUFFER - 1) |-> "0"]
ROUND_UP_TRIGGER == [i \in 1..(BUFFER - 1) |-> "9"]

\* ------------------------------------------------------------------------
\* Values are bound before they are used: an operator that reads an argument
\* more than once takes it through a one-element set, so that the argument is
\* computed once.

The(S) == CHOOSE r \in S : TRUE

Max(a, b) == IF a >= b THEN a ELSE b

Min(a, b) == IF a <= b THEN a ELSE b

\* ------------------------------------------------------------------------
\* Strings

DigitChars == <<"0", "1", "2", "3", "4", "5", "6", "7", "8", "9">>

IsDigitChar(ch) == \E i \in 1..10 : DigitChars[i] = ch

CharOfDigit(n) == DigitChars[n + 1]

DigitOfChar(ch) == (CHOOSE i \in 1..10 : DigitChars[i] = ch) - 1

\* String.prototype.includes
includes(str0, part0) ==
    \E str \in {str0}, part \in {part0} :
        \E i \in 0..(Len(str) - Len(part)) :
            \A j \in 1..Len(part) : str[i + j] = part[j]

\* String.prototype.indexOf of one character: 0-based, -1 when absent
indexOf(str0, ch) ==
    The({IF \E i \in 1..Len(str) : str[i] = ch
         THEN (CHOOSE i \in 1..Len(str) :
                   str[i] = ch /\ \A j \in 1..(i - 1) : str[j] # ch) - 1
         ELSE -1 : str \in {str0}})

\* String.prototype.lastIndexOf of one character: 0-based, -1 when absent
lastIndexOf(str0, ch) ==
    The({IF \E i \in 1..Len(str) : str[i] = ch
         THEN (CHOOSE i \in 1..Len(str) :
                   str[i] = ch /\ \A j \in (i + 1)..Len(str) : str[j] # ch) - 1
         ELSE -1 : str \in {str0}})

\* String.prototype.substring(from, to), 0-based, to exclusive
substring(str, from, to) == SubSeq(str, from + 1, to)

Zeros(n) == [i \in 1..n |-> 0]

ZeroChars(n) == [i \in 1..n |-> "0"]

CharsOfDigits(ds0) == The({[i \in 1..Len(ds) |-> CharOfDigit(ds[i])] : ds \in {ds0}})

DigitsOfChars(str0) == The({[i \in 1..Len(str) |-> DigitOfChar(str[i])] : str \in {str0}})

RECURSIVE NatToChars(_)
NatToChars(n) ==
    IF n < 10 THEN <<CharOfDigit(n)>>
    ELSE NatToChars(n \div 10) \o <<CharOfDigit(n % 10)>>

RECURSIVE CharsToNat(_)
CharsToNat(str) ==
    IF str = <<>> THEN 0
    ELSE 10 * CharsToNat(SubSeq(str, 1, Len(str) - 1)) + DigitOfChar(str[Len(str)])

AllDigitChars(str0) == \E str \in {str0} : \A i \in 1..Len(str) : IsDigitChar(str[i])

\* ------------------------------------------------------------------------
\* Natural numbers of any size: sequences of digits, most significant first

IsZeroNat(ds0) == \E ds \in {ds0} : \A i \in 1..Len(ds) : ds[i] = 0

\* ds without its leading zeros (one digit is kept)
StripLeading(ds0) ==
    The({IF \A i \in 1..Len(ds) : ds[i] = 0 THEN <<0>>
         ELSE SubSeq(ds,
                     CHOOSE i \in 1..Len(ds) : ds[i] # 0 /\ \A j \in 1..(i - 1) : ds[j] = 0,
                     Len(ds)) : ds \in {ds0}})

\* ds without its trailing zeros (one digit is kept)
StripTrailing(ds0) ==
    The({IF \A i \in 1..Len(ds) : ds[i] = 0 THEN <<0>>
         ELSE SubSeq(ds, 1,
                     CHOOSE i \in 1..Len(ds) :
                         ds[i] # 0 /\ \A j \in (i + 1)..Len(ds) : ds[j] = 0)
         : ds \in {ds0}})

\* digit i of ds written with n digits, n >= Len(ds)
DigitAt(ds, n, i) == IF i > n - Len(ds) THEN ds[i - (n - Len(ds))] ELSE 0

PadLeft(ds0, n0) ==
    The({[i \in 1..n |-> DigitAt(ds, n, i)] : ds \in {ds0}, n \in {Max(n0, Len(ds0))}})

\* The arithmetic works on words of LOG_BASE digits, as decimal.js does; a
\* word is kept small enough for the product of two words to be an integer
\* of the checker.
LOG_BASE == 4

BASE == 10000

\* the words of the digits ds, most significant first, without leading zeros
Words(ds0) ==
    The({StripLeading([j \in 1..(Len(p) \div LOG_BASE) |->
             p[4 * j - 3] * 1000 + p[4 * j - 2] * 100 + p[4 * j - 1] * 10 + p[4 * j]])
         : p \in {PadLeft(ds0, LOG_BASE * Max(1, (Len(ds0) + LOG_BASE - 1) \div LOG_BASE))}})

\* the digits of the words ws
Digits(ws0) ==
    The({StripLeading([i \in 1..(LOG_BASE * Len(ws)) |->
                          (ws[(i + 3) \div 4] \div <<1000, 100, 10, 1>>[((i - 1) % 4) + 1]) % 10])
         : ws \in {ws0}})

\* one step of carrying: column i of v and the carry so far
CarryStep(v, i, st) ==
    The({[carry |-> t \div BASE, acc |-> <<t % BASE>> \o st.acc] : t \in {v[i] + st.carry}})

\* carrying through the columns hi down to lo of v
RECURSIVE CarryRange(_, _, _, _)
CarryRange(v, lo, hi, st) ==
    IF lo > hi THEN st
    ELSE IF lo = hi THEN CarryStep(v, lo, st)
    ELSE The({The({CarryRange(v, lo, mid, st1) : st1 \in {CarryRange(v, mid + 1, hi, st)}})
              : mid \in {(lo + hi) \div 2}})

\* the words of the number whose columns, most significant first, are the
\* integers of v: a column may exceed a word or be negative
Carried(v0) ==
    The({The({StripLeading(<<st.carry \div BASE, st.carry % BASE>> \o st.acc)
              : st \in {CarryRange(v, 1, Len(v), [carry |-> 0, acc |-> <<>>])}})
         : v \in {v0}})

\* -1, 0 or 1 as x < y, x = y or x > y, for words without leading zeros
WordsCmp(x0, y0) ==
    The({IF Len(x) # Len(y) THEN (IF Len(x) < Len(y) THEN -1 ELSE 1)
         ELSE IF x = y THEN 0
         ELSE The({IF x[k] < y[k] THEN -1 ELSE 1
                   : k \in {CHOOSE k \in 1..Len(x) :
                               x[k] # y[k] /\ SubSeq(x, 1, k - 1) = SubSeq(y, 1, k - 1)}})
         : x \in {x0}, y \in {y0}})

\* x + sign * y, for sign 1 or -1 (and then x >= y)
WordsAdd(x0, y0, sign) ==
    The({Carried([i \in 1..Len(x) |-> x[i] + sign * y[i]])
         : x \in {PadLeft(x0, Len(y0))}, y \in {PadLeft(y0, Len(x0))}})

\* x * k + n, for small k and n
WordsMulSmall(x0, k, n) ==
    The({Carried([i \in 1..Len(x) |-> x[i] * k + (IF i = Len(x) THEN n ELSE 0)])
         : x \in {x0}})

\* the sum of x[i] * y[c + 1 - i] for i in lo..hi
RECURSIVE ColumnSum(_, _, _, _, _)
ColumnSum(x, y, c, lo, hi) ==
    IF lo > hi THEN 0
    ELSE IF lo = hi THEN x[lo] * y[c + 1 - lo]
    ELSE The({ColumnSum(x, y, c, lo, mid) + ColumnSum(x, y, c, mid + 1, hi)
              : mid \in {(lo + hi) \div 2}})

WordsMul(x0, y0) ==
    The({Carried([c \in 1..(Len(x) + Len(y) - 1) |->
                     ColumnSum(x, y, c, Max(1, c + 1 - Len(y)), Min(Len(x), c))])
         : x \in {x0}, y \in {y0}})

\* the largest digit x for which P(x) holds, P holding of 0 and of every
\* digit below one it holds of
MaxDigit(P(_)) ==
    IF P(5)
    THEN (IF P(7) THEN (IF P(8) THEN (IF P(9) THEN 9 ELSE 8) ELSE 7)
          ELSE IF P(6) THEN 6 ELSE 5)
    ELSE (IF P(3) THEN (IF P(4) THEN 4 ELSE 3)
          ELSE IF P(2) THEN 2 ELSE IF P(1) THEN 1 ELSE 0)

\* one step of long division: the next digit of a is brought down
DivStep(a, multiples, i, st) ==
    The({The({[r |-> WordsAdd(r, multiples[x + 1], -1), q |-> Append(st.q, x)]
              : x \in {MaxDigit(LAMBDA d : WordsCmp(multiples[d + 1], r) <= 0)}})
         : r \in {WordsMulSmall(st.r, 10, a[i])}})

RECURSIVE DivRange(_, _, _, _, _)
DivRange(a, multiples, lo, hi, st) ==
    IF lo > hi THEN st
    ELSE IF lo = hi THEN DivStep(a, multiples, lo, st)
    ELSE The({The({DivRange(a, multiples, mid + 1, hi, st1)
                   : st1 \in {DivRange(a, multiples, lo, mid, st)}})
              : mid \in {(lo + hi) \div 2}})

\* one step of the square root: the next two digits of a are brought down, p
\* being the root so far and c what is left under it
SqrtStep(a, i, st) ==
    The({The({[c |-> WordsAdd(c, WordsMulSmall(WordsMulSmall(st.p, 20, x), x, 0), -1),
               p |-> WordsMulSmall(st.p, 10, x)]
              : x \in {MaxDigit(LAMBDA d :
                          WordsCmp(WordsMulSmall(WordsMulSmall(st.p, 20, d), d, 0), c) <= 0)}})
         : c \in {WordsMulSmall(st.c, 100, 10 * a[2 * i - 1] + a[2 * i])}})

RECURSIVE SqrtRange(_, _, _, _)
SqrtRange(a, lo, hi, st) ==
    IF lo > hi THEN st
    ELSE IF lo = hi THEN SqrtStep(a, lo, st)
    ELSE The({The({SqrtRange(a, mid + 1, hi, st1) : st1 \in {SqrtRange(a, lo, mid, st)}})
              : mid \in {(lo + hi) \div 2}})

\* -1, 0 or 1 as a < b, a = b or a > b
NatCmp(a, b) == WordsCmp(Words(a), Words(b))

NatAdd(a, b) == Digits(WordsAdd(Words(a), Words(b), 1))

\* a - b, for a >= b
NatSub(a, b) == Digits(WordsAdd(Words(a), Words(b), -1))

NatMul(a, b) == Digits(WordsMul(Words(a), Words(b)))

\* the quotient q and the remainder r of a by b, b > 0
NatDivMod(a0, b0) ==
    The({The({[q |-> StripLeading(st.q), r |-> Digits(st.r)]
              : st \in {DivRange(a, [x \in 1..10 |-> WordsMulSmall(b, x - 1, 0)],
                                 1, Len(a), [r |-> <<0>>, q |-> <<>>])}})
         : a \in {a0}, b \in {Words(b0)}})

\* the integer square root q of a, and the remainder r = a - q * q
NatSqrt(a0) ==
    The({The({[q |-> Digits(st.p), r |-> Digits(st.c)]
              : st \in {SqrtRange(a, 1, Len(a) \div 2, [c |-> <<0>>, p |-> <<0>>])}})
         : a \in {PadLeft(a0, 2 * ((Len(a0) + 1) \div 2))}})

\* ------------------------------------------------------------------------
\* decimal.js values

DNum(s, d, e) == [k |-> "num", s |-> s, d |-> d, e |-> e]

DInf(s) == [k |-> "inf", s |-> s, d |-> <<>>, e |-> 0]

D_NaN == [k |-> "nan", s |-> 0, d |-> <<>>, e |-> 0]

\* the value of a constructor call that throws "[DecimalError] Invalid argument"
DecimalError == [k |-> "err", s |-> 0, d |-> <<>>, e |-> 0]

D_0 == DNum(1, <<0>>, 0)

D_1 == DNum(1, <<1>>, 0)

D_100 == DNum(1, <<1>>, 2)

isZero(x) == x.k = "num" /\ x.d = <<0>>

\* the exponent of the last digit of x.d
Quantum(x) == x.e - (Len(x.d) - 1)

\* the Decimal of sign s and value n * 10^q, n a digit sequence
Normalize(s, n0, q) ==
    The({IF IsZeroNat(m) THEN DNum(s, <<0>>, 0)
         ELSE DNum(s, StripTrailing(m), Len(m) - 1 + q)
         : m \in {StripLeading(n0)}})

\* n * 10^q (plus a little when sticky) as a multiple of 10^q0, q0 > q:
\* rounded half to even, or towards zero
RoundAt(n0, q, sticky, q0, halfEven) ==
    The({IF /\ halfEven
            /\ \/ p[Len(p) - (q0 - q) + 1] > 5
               \/ /\ p[Len(p) - (q0 - q) + 1] = 5
                  /\ \/ sticky
                     \/ \E i \in (Len(p) - (q0 - q) + 2)..Len(p) : p[i] # 0
                     \/ p[Len(p) - (q0 - q)] % 2 = 1
         THEN NatAdd(SubSeq(p, 1, Len(p) - (q0 - q)), <<1>>)
         ELSE SubSeq(p, 1, Len(p) - (q0 - q))
         : p \in {PadLeft(n0, q0 - q + 1)}})

\* finalise(x, sd, ROUND_HALF_EVEN): to sd significant digits
finalise(s, n0, q, sticky, sd) ==
    The({IF Len(m) <= sd THEN Normalize(s, m, q)
         ELSE Normalize(s, RoundAt(m, q, sticky, q + Len(m) - sd, TRUE), q + Len(m) - sd)
         : m \in {StripLeading(n0)}})

\* Decimal.prototype.toDecimalPlaces(dp), rounding mode ROUND_HALF_EVEN
toDecimalPlaces(x0, dp) ==
    The({IF x.k # "num" \/ Quantum(x) >= -dp THEN x
         ELSE Normalize(x.s, RoundAt(x.d, Quantum(x), FALSE, -dp, TRUE), -dp)
         : x \in {x0}})

\* Decimal.prototype.truncated()
truncated(x0) ==
    The({IF x.k # "num" \/ Quantum(x) >= 0 THEN x
         ELSE Normalize(x.s, RoundAt(x.d, Quantum(x), FALSE, 0, FALSE), 0)
         : x \in {x0}})

\* Decimal.prototype.neg()
neg(x0) == The({IF x.k = "nan" THEN x ELSE [x EXCEPT !.s = -x.s] : x \in {x0}})

\* the digits of x as a multiple of 10^q, q <= Quantum(x)
Coef(x, q) == x.d \o Zeros(Quantum(x) - q)

\* x + y for finite x, y of one sign
FinAdd(x, y) ==
    IF isZero(y) THEN finalise(x.s, x.d, Quantum(x), FALSE, PRECISION)
    ELSE IF isZero(x) THEN finalise(y.s, y.d, Quantum(y), FALSE, PRECISION)
    ELSE finalise(x.s,
                  NatAdd(Coef(x, Min(Quantum(x), Quantum(y))),
                         Coef(y, Min(Quantum(x), Quantum(y)))),
                  Min(Quantum(x), Quantum(y)), FALSE, PRECISION)

\* x - y for finite x, y of one sign
FinSub(x, y) ==
    IF isZero(x) /\ isZero(y) THEN D_0
    ELSE IF isZero(x) THEN finalise(-y.s, y.d, Quantum(y), FALSE, PRECISION)
    ELSE IF isZero(y) THEN finalise(x.s, x.d, Quantum(x), FALSE, PRECISION)
    ELSE The({IF NatCmp(a, b) = 0 THEN D_0
              ELSE IF NatCmp(a, b) > 0
              THEN finalise(x.s, NatSub(a, b), Min(Quantum(x), Quantum(y)), FALSE, PRECISION)
              ELSE finalise(-x.s, NatSub(b, a), Min(Quantum(x), Quantum(y)), FALSE, PRECISION)
              : a \in {Coef(x, Min(Quantum(x), Quantum(y)))},
                b \in {Coef(y, Min(Quantum(x), Quantum(y)))}})

\* Decimal.prototype.add
add(x0, y0) ==
    The({IF x.k = "nan" \/ y.k = "nan" THEN D_NaN
         ELSE IF x.k = "inf" THEN (IF y.k = "num" \/ x.s = y.s THEN x ELSE D_NaN)
         ELSE IF y.k = "inf" THEN y
         ELSE IF x.s = y.s THEN FinAdd(x, y)
         ELSE The({FinSub(x, z) : z \in {neg(y)}})
         : x \in {x0}, y \in {y0}})

\* Decimal.prototype.sub
sub(x0, y0) ==
    The({IF x.k = "nan" \/ y.k = "nan" THEN D_NaN
         ELSE IF x.k = "inf" THEN (IF y.k = "num" \/ x.s # y.s THEN x ELSE D_NaN)
         ELSE IF y.k = "inf" THEN neg(y)
         ELSE IF x.s = y.s THEN FinSub(x, y)
         ELSE The({FinAdd(x, z) : z \in {neg(y)}})
         : x \in {x0}, y \in {y0}})

\* Decimal.prototype.mul
mul(x0, y0) ==
    The({IF x.k = "nan" \/ y.k = "nan" THEN D_NaN
         ELSE IF (isZero(x) /\ y.k = "inf") \/ (isZero(y) /\ x.k = "inf") THEN D_NaN
         ELSE IF x.k = "inf" \/ y.k = "inf" THEN DInf(x.s * y.s)
         ELSE IF isZero(x) \/ isZero(y) THEN DNum(x.s * y.s, <<0>>, 0)
         ELSE finalise(x.s * y.s, NatMul(x.d, y.d), Quantum(x) + Quantum(y),
                       FALSE, PRECISION)
         : x \in {x0}, y \in {y0}})

\* the digits of the quotient of finite non-zero x and y wanted before rounding
DivShift(x, y) == Max(0, PRECISION + 2 + Len(y.d) - Len(x.d))

\* Decimal.prototype.div: dividing by zero gives an infinity or NaN, it does not throw
div(x0, y0) ==
    The({IF x.k = "nan" \/ y.k = "nan" THEN D_NaN
         ELSE IF (isZero(x) /\ isZero(y)) \/ (x.k = "inf" /\ y.k = "inf") THEN D_NaN
         ELSE IF isZero(x) \/ y.k = "inf" THEN DNum(x.s * y.s, <<0>>, 0)
         ELSE IF isZero(y) \/ x.k = "inf" THEN DInf(x.s * y.s)
         ELSE The({finalise(x.s * y.s, dm.q, Quantum(x) - Quantum(y) - DivShift(x, y),
                            ~IsZeroNat(dm.r), PRECISION)
                   : dm \in {NatDivMod(x.d \o Zeros(DivShift(x, y)), y.d)}})
         : x \in {x0}, y \in {y0}})

\* the digits of positive finite x as a multiple of an even power of ten
EvenCoef(x) == IF Quantum(x) % 2 = 1 THEN x.d \o <<0>> ELSE x.d

EvenQuantum(x) == IF Quantum(x) % 2 = 1 THEN Quantum(x) - 1 ELSE Quantum(x)

SqrtShift(x) == Max(0, PRECISION + 2 - (Len(EvenCoef(x)) \div 2))

\* Decimal.prototype.sqrt
squareRoot(x0) ==
    The({IF x.k = "nan" THEN D_NaN
         ELSE IF x.s < 0 /\ ~isZero(x) THEN D_NaN
         ELSE IF x.k = "inf" \/ isZero(x) THEN x
         ELSE The({finalise(1, rt.q, (EvenQuantum(x) \div 2) - SqrtShift(x),
                            ~IsZeroNat(rt.r), PRECISION)
                   : rt \in {NatSqrt(EvenCoef(x) \o Zeros(2 * SqrtShift(x)))}})
         : x \in {x0}})

\* finiteToString(x, isExp), x a finite value and str its digits
finiteToString(x, str, isExp) ==
    IF isExp
    THEN (IF Len(str) > 1 THEN <<str[1], ".">> \o Tail(str) ELSE str)
         \o (IF x.e < 0 THEN <<"e", "-">> \o NatToChars(-x.e)
             ELSE <<"e", "+">> \o NatToChars(x.e))
    ELSE IF x.e < 0 THEN <<"0", ".">> \o ZeroChars(-x.e - 1) \o str
    ELSE IF x.e >= Len(str) THEN str \o ZeroChars(x.e + 1 - Len(str))
    ELSE IF x.e + 1 < Len(str)
    THEN SubSeq(str, 1, x.e + 1) \o <<".">> \o SubSeq(str, x.e + 2, Len(str))
    ELSE str

nonFiniteToString(x) ==
    IF x.k = "nan" THEN <<"N", "a", "N">>
    ELSE (IF x.s < 0 THEN <<"-">> ELSE <<>>) \o <<"I", "n", "f", "i", "n", "i", "t", "y">>

\* Decimal.prototype.toString(): exponential notation from toExpPos and toExpNeg on
toString(x0) ==
    The({IF x.k # "num" THEN nonFiniteToString(x)
         ELSE (IF x.s < 0 /\ ~isZero(x) THEN <<"-">> ELSE <<>>)
              \o The({finiteToString(x, str, x.e <= TO_EXP_NEG \/ x.e >= TO_EXP_POS)
                      : str \in {CharsOfDigits(x.d)}})
         : x \in {x0}})

\* Decimal.prototype.toFixed(), no argument: normal notation, no rounding
toFixed(x0) ==
    The({IF x.k # "num" THEN nonFiniteToString(x)
         ELSE (IF x.s < 0 /\ ~isZero(x) THEN <<"-">> ELSE <<>>)
              \o The({finiteToString(x, str, FALSE) : str \in {CharsOfDigits(x.d)}})
         : x \in {x0}})

\* the text v after the sign, cut at its exponent mark and its decimal point
Literal(v0) ==
    The({The({[int |-> IF indexOf(mant, ".") >= 0
                       THEN substring(mant, 0, indexOf(mant, "."))
                       ELSE mant,
               dot |-> indexOf(mant, ".") >= 0,
               frac |-> IF indexOf(mant, ".") >= 0
                        THEN substring(mant, indexOf(mant, ".") + 1, Len(mant))
                        ELSE <<>>,
               mark |-> Len(mant) < Len(v),
               minus |-> Len(mant) + 1 < Len(v) /\ v[Len(mant) + 2] = "-",
               digs |-> IF Len(mant) + 1 < Len(v) /\ v[Len(mant) + 2] \in {"+", "-"}
                        THEN SubSeq(v, Len(mant) + 3, Len(v))
                        ELSE SubSeq(v, Len(mant) + 2, Len(v))]
              : mant \in {IF \E i \in 1..Len(v) : v[i] \in {"e", "E"}
                          THEN SubSeq(v, 1, (CHOOSE i \in 1..Len(v) :
                                                 /\ v[i] \in {"e", "E"}
                                                 /\ \A j \in 1..(i - 1) : v[j] \notin {"e", "E"})
                                            - 1)
                          ELSE v}})
         : v \in {v0}})

\* isDecimal = /^(\d+(\.\d*)?|\.\d+)(e[+-]?\d+)?$/i, on a text cut by Literal
isDecimal(l) ==
    /\ AllDigitChars(l.int) /\ AllDigitChars(l.frac)
    /\ (l.int # <<>> \/ (l.dot /\ l.frac # <<>>))
    /\ l.mark => (l.digs # <<>> /\ AllDigitChars(l.digs))

\* parseDecimal(x, v), for a text that isDecimal accepts
parseDecimal(s, l) ==
    Normalize(s, DigitsOfChars(l.int \o l.frac),
              (IF l.minus THEN -CharsToNat(l.digs) ELSE CharsToNat(l.digs)) - Len(l.frac))

\* new Decimal(v) for a string v: a value, or DecimalError where it throws
Decimal(v0) ==
    The({The({IF isDecimal(l) THEN parseDecimal(IF v[1] = "-" THEN -1 ELSE 1, l)
              ELSE IF rest = <<"I", "n", "f", "i", "n", "i", "t", "y">>
              THEN DInf(IF v[1] = "-" THEN -1 ELSE 1)
              ELSE IF rest = <<"N", "a", "N">> THEN D_NaN
              ELSE DecimalError
              : rest \in {rest0}, l \in {Literal(rest0)}})
         : v \in {v0}, rest0 \in {IF v0 # <<>> /\ v0[1] \in {"-", "+"} THEN Tail(v0) ELSE v0}})

\* ------------------------------------------------------------------------
\* Utility functions

\* what relevantPart, getDecimal and the handlers yield where new Decimal throws
Thrown == <<"[DecimalError]">>

ZeroDot == <<"0", ".">>

isDigit(input) == IsDigitChar(input) \/ input = "."

BinaryOperationNames ==
    <<"+", "|", "-", "|", "*", "|", "/", "|", "&", "t", "i", "m", "e", "s", ";", "|",
      "&", "d", "i", "v", "i", "d", "e", ";", "|", "a", "d", "d", "|", "s", "u", "b", "|",
      "m", "u", "l", "|", "d", "i", "v">>

isBinaryOperation(input) == includes(BinaryOperationNames, input)

lastChar(input) ==
    IF input = <<>>
    THEN <<"[", "E", "M", "P", "T", "Y", " ", "S", "T", "R", "I", "N", "G", "]">>
    ELSE <<input[Len(input)]>>

mapOp(operation) ==
    CASE operation \in {"/", "div"} -> <<"&", "d", "i", "v", "i", "d", "e", ";">>
      [] operation \in {"*", "mul"} -> <<"&", "t", "i", "m", "e", "s", ";">>
      [] operation = "add" -> <<"+">>
      [] operation = "sub" -> <<"-">>
      [] OTHER -> <<operation>>

\* generatedString of relevantPart, for the value x of new Decimal(value)
generatedString(x, precision) ==
    The({The({IF includes(cut, ROUND_UP_TRIGGER)
              THEN toString(add(truncated(x), D_1))
              ELSE cut
              : cut \in {IF includes(rounded, TRUNCATION_TRIGGER)
                         THEN toString(truncated(x))
                         ELSE rounded}})
         : rounded \in {toFixed(toDecimalPlaces(x, precision))}})

\* the end of relevantPart: the overflow test and the optional suffix
proposed(str0) ==
    The({IF indexOf(str, ".") >= MAX_DIGITS THEN OUT_OF_MEMORY
         ELSE IF includes(str, <<".">>) THEN str
         ELSE str \o <<".">>
         : str \in {str0}})

relevantPart(value0, precision) ==
    The({IF value = ZeroDot \/ value = <<".">> \/ value = <<>> THEN ZeroDot
         ELSE IF value = OUT_OF_MEMORY THEN OUT_OF_MEMORY
         ELSE The({IF x.k = "err" THEN Thrown
                   ELSE proposed(generatedString(x, precision))
                   : x \in {Decimal(value)}})
         : value \in {value0}})

\* updateDisplays that on overflow leaves partial as it is
updateDisplaysKeepingPartial(c0) ==
    The({The({IF textToDisplay = Thrown
              THEN [c EXCEPT !.equationDisplay = IF c.equation = <<>> THEN ZeroDot
                                                  ELSE c.equation,
                             !.threw = TRUE]
              ELSE IF textToDisplay = OUT_OF_MEMORY
              THEN [c EXCEPT !.equationDisplay = IF c.equation = <<>> THEN ZeroDot
                                                  ELSE c.equation,
                             !.equation = <<>>,
                             !.primary = OUT_OF_MEMORY,
                             !.allowChange = FALSE,
                             !.primaryDisplay = textToDisplay]
              ELSE [c EXCEPT !.equationDisplay = IF c.equation = <<>> THEN ZeroDot
                                                  ELSE c.equation,
                             !.primaryDisplay = textToDisplay]
              : textToDisplay \in {relevantPart(c.primary, MAX_DIGITS)}})
         : c \in {c0}})

\* updateDisplays; relevantPart throwing leaves the equation display written
updateDisplays(c0) ==
    The({The({IF textToDisplay = Thrown
              THEN [c EXCEPT !.equationDisplay = IF c.equation = <<>> THEN ZeroDot
                                                  ELSE c.equation,
                             !.threw = TRUE]
              ELSE IF textToDisplay = OUT_OF_MEMORY
              THEN [c EXCEPT !.equationDisplay = IF c.equation = <<>> THEN ZeroDot
                                                  ELSE c.equation,
                             !.partial = D_0,
                             !.equation = <<>>,
                             !.primary = OUT_OF_MEMORY,
                             !.allowChange = FALSE,
                             !.primaryDisplay = textToDisplay]
              ELSE [c EXCEPT !.equationDisplay = IF c.equation = <<>> THEN ZeroDot
                                                  ELSE c.equation,
                             !.primaryDisplay = textToDisplay]
              : textToDisplay \in {relevantPart(c.primary, MAX_DIGITS)}})
         : c \in {c0}})

getDecimal(value0) ==
    The({IF value = <<".">> \/ value = <<>> THEN D_0 ELSE Decimal(value)
         : value \in {value0}})

removeLastChar(value0) ==
    The({substring(value, 0, Len(value) - 1) : value \in {value0}})

\* ------------------------------------------------------------------------
\* Operation functions

addition(a, b) == add(a, b)

subtraction(a, b) == sub(a, b)

multiplication(a, b) == mul(a, b)

\* div does not throw, so the catch branch is never taken
division(a, b) == div(a, b)

percentage(value) == div(value, D_100)

negate(value) == neg(value)

reciprocal(value) == div(D_1, value)

square(value0) == The({mul(value, value) : value \in {value0}})

sqrt(value) == squareRoot(value)

\* calculator.lastOperation(args), for the operation function named op
lastOperationOf(op, a, b) ==
    CASE op = "addition" -> addition(a, b)
      [] op = "subtraction" -> subtraction(a, b)
      [] op = "multiplication" -> multiplication(a, b)
      [] op = "division" -> division(a, b)

\* ------------------------------------------------------------------------
\* Handler functions. Each maps the calculator object to the calculator object
\* it leaves; threw is set where the handler ends in an uncaught exception,
\* and the fields then hold what had been assigned before the throw.

\* appendDigit that appends a 0 to an empty primary as well
appendDigitAnyZero(c, digit) ==
    IF digit = "." /\ includes(c.primary, <<".">>) THEN c
    ELSE IF Len(c.primary) - (IF digit = "." THEN 1 ELSE 0) >= MAX_DIGITS THEN c
    ELSE [c EXCEPT !.primary = c.primary \o <<digit>>]

\* appendDigit without the test for a decimal point already present
appendDigitAnyDot(c, digit) ==
    IF Len(c.primary) - (IF digit = "." THEN 1 ELSE 0) >= MAX_DIGITS THEN c
    ELSE IF c.primary # <<>> \/ digit # "0"
    THEN [c EXCEPT !.primary = c.primary \o <<digit>>]
    ELSE c

\* handleDigit once allowChange holds
appendDigit(c, digit) ==
    IF digit = "." /\ includes(c.primary, <<".">>) THEN c
    ELSE IF Len(c.primary) - (IF digit = "." THEN 1 ELSE 0) >= MAX_DIGITS THEN c
    ELSE IF c.primary # <<>> \/ digit # "0"
    THEN [c EXCEPT !.primary = c.primary \o <<digit>>]
    ELSE c

\* handleDigit that keeps primary when allowChange is false
handleDigitAppending(c0, digit) ==
    The({appendDigit([c EXCEPT !.allowChange = TRUE], digit) : c \in {c0}})

handleDigit(c0, digit) ==
    The({IF ~c.allowChange
         THEN appendDigit([c EXCEPT !.primary = <<>>, !.allowChange = TRUE], digit)
         ELSE appendDigit(c, digit)
         : c \in {c0}})

\* updateLastOperationAndAnimate that keeps an operation already pending
updateLastOperationIfNone(c, operation) ==
    IF c.lastOperation # "undefined" THEN c
    ELSE CASE operation \in {"+", "add"} -> [c EXCEPT !.lastOperation = "addition"]
           [] operation \in {"-", "sub"} -> [c EXCEPT !.lastOperation = "subtraction"]
           [] operation \in {"*", "mul"} -> [c EXCEPT !.lastOperation = "multiplication"]
           [] operation \in {"/", "div"} -> [c EXCEPT !.lastOperation = "division"]
           [] OTHER -> [c EXCEPT !.threw = TRUE]

updateLastOperationAndAnimate(c, operation) ==
    CASE operation \in {"+", "add"} -> [c EXCEPT !.lastOperation = "addition"]
      [] operation \in {"-", "sub"} -> [c EXCEPT !.lastOperation = "subtraction"]
      [] operation \in {"*", "mul"} -> [c EXCEPT !.lastOperation = "multiplication"]
      [] operation \in {"/", "div"} -> [c EXCEPT !.lastOperation = "division"]
      [] OTHER -> [c EXCEPT !.threw = TRUE]

\* handleEquals from the assignment of partial on, result being the new partial
storeResult(c, result0) ==
    The({[c EXCEPT !.partial = result,
                   !.lastOperation = "undefined",
                   !.primary = toString(toDecimalPlaces(result, MAX_DIGITS + BUFFER)),
                   !.equation = <<>>,
                   !.allowChange = FALSE]
         : result \in {result0}})

\* handleEquals without the test for a pending operation: with none, primary
\* is stored as the result
handleEqualsUnguarded(c0) ==
    The({IF c.primary = OUT_OF_MEMORY THEN c
         ELSE The({IF arg.k = "err" THEN [c EXCEPT !.threw = TRUE]
                   ELSE IF c.lastOperation = "undefined" THEN storeResult(c, arg)
                   ELSE storeResult(c, lastOperationOf(c.lastOperation, c.partial, arg))
                   : arg \in {getDecimal(c.primary)}})
         : c \in {c0}})

handleEquals(c0) ==
    The({IF c.lastOperation = "undefined" THEN c
         ELSE IF c.primary = OUT_OF_MEMORY THEN c
         ELSE The({IF arg.k = "err" THEN [c EXCEPT !.threw = TRUE]
                   ELSE storeResult(c, lastOperationOf(c.lastOperation, c.partial, arg))
                   : arg \in {getDecimal(c.primary)}})
         : c \in {c0}})

\* replaceOperation removing one character whatever the operation at the end
replaceOperationOneChar(c, operation) ==
    [c EXCEPT !.equation = removeLastChar(c.equation) \o mapOp(operation)]

\* handleBinaryOperation, first branch: the operation at the end of the
\* equation is exchanged
replaceOperation(c, operation) ==
    IF lastChar(c.equation) = <<";">>
    THEN [c EXCEPT !.equation =
              removeLastChar(substring(c.equation, 0, lastIndexOf(c.equation, "&") + 1))
              \o mapOp(operation)]
    ELSE [c EXCEPT !.equation = removeLastChar(c.equation) \o mapOp(operation)]

\* handleBinaryOperation, else branch: an unevaluated operation is completed
resolvePending(c0) ==
    The({IF c.lastOperation = "undefined" THEN c
         ELSE The({IF e.threw THEN e ELSE updateDisplays(e) : e \in {handleEquals(c)}})
         : c \in {c0}})

\* appendToEquation without the test for the sentinel
appendToEquationUntested(c, operation) ==
    The({IF valueForDisplay = Thrown THEN [c EXCEPT !.threw = TRUE]
         ELSE updateLastOperationAndAnimate(
                  [c EXCEPT !.equation = c.equation \o valueForDisplay \o mapOp(operation),
                            !.primary = <<>>],
                  operation)
         : valueForDisplay \in {relevantPart(c.primary, EQUATION_PRECISION)}})

\* handleBinaryOperation, else branch from the test of valueForDisplay on
appendToEquation(c, operation) ==
    The({IF valueForDisplay = Thrown THEN [c EXCEPT !.threw = TRUE]
         ELSE IF valueForDisplay = OUT_OF_MEMORY
         THEN [c EXCEPT !.equation = OUT_OF_MEMORY,
                        !.lastOperation = "undefined",
                        !.allowChange = FALSE]
         ELSE updateLastOperationAndAnimate(
                  [c EXCEPT !.equation = c.equation \o valueForDisplay \o mapOp(operation),
                            !.primary = <<>>],
                  operation)
         : valueForDisplay \in {relevantPart(c.primary, EQUATION_PRECISION)}})

\* handleBinaryOperation, else branch after the pending operation is completed
appendOperation(c0, operation) ==
    The({IF c.threw THEN c
         ELSE IF c.primary = OUT_OF_MEMORY
         THEN [c EXCEPT !.lastOperation = "undefined", !.allowChange = FALSE]
         ELSE IF c.primary = <<>> THEN appendToEquation(c, operation)
         ELSE The({IF value.k = "err" THEN [c EXCEPT !.threw = TRUE]
                   ELSE appendToEquation([c EXCEPT !.partial = value], operation)
                   : value \in {getDecimal(c.primary)}})
         : c \in {c0}})

\* the text handleBinaryOperation tests: the last character of the equation,
\* or its last entity when that character is ";"
lastOperationText(equation) ==
    IF lastChar(equation) = <<";">>
    THEN substring(equation, lastIndexOf(equation, "&"), Len(equation))
    ELSE lastChar(equation)

handleBinaryOperation(c0, operation) ==
    The({IF isBinaryOperation(lastOperationText(c.equation)) /\ c.primary = <<>>
         THEN updateLastOperationAndAnimate(replaceOperation(c, operation), operation)
         ELSE appendOperation(resolvePending(c), operation)
         : c \in {c0}})

\* the operation function handleUnaryOperation's switch selects
unaryResult(operation, currentValue) ==
    CASE operation = "rcp" -> reciprocal(currentValue)
      [] operation \in {"%", "pct"} -> percentage(currentValue)
      [] operation = "sqrt" -> sqrt(currentValue)
      [] operation = "sqr" -> square(currentValue)
      [] operation = "pm" -> negate(currentValue)
      [] OTHER -> currentValue

\* handleUnaryOperation that stores the result in partial as well
handleUnaryOperationStoring(c0, operation) ==
    The({IF c.primary = <<>> \/ c.primary = OUT_OF_MEMORY THEN c
         ELSE The({IF currentValue.k = "err" THEN [c EXCEPT !.threw = TRUE]
                   ELSE The({IF text = Thrown THEN [c EXCEPT !.threw = TRUE]
                             ELSE [c EXCEPT !.primary = text,
                                            !.partial = unaryResult(operation, currentValue)]
                             : text \in {relevantPart(
                                   toString(toDecimalPlaces(
                                       unaryResult(operation, currentValue),
                                       MAX_DIGITS + BUFFER)),
                                   MAX_DIGITS)}})
                   : currentValue \in {getDecimal(c.primary)}})
         : c \in {c0}})

\* handleUnaryOperation without the test for an empty or sentinel primary
handleUnaryOperationUnguarded(c0, operation) ==
    The({The({IF currentValue.k = "err" THEN [c EXCEPT !.threw = TRUE]
              ELSE The({IF text = Thrown THEN [c EXCEPT !.threw = TRUE]
                        ELSE [c EXCEPT !.primary = text]
                        : text \in {relevantPart(
                              toString(toDecimalPlaces(
                                  unaryResult(operation, currentValue),
                                  MAX_DIGITS + BUFFER)),
                              MAX_DIGITS)}})
              : currentValue \in {getDecimal(c.primary)}})
         : c \in {c0}})

handleUnaryOperation(c0, operation) ==
    The({IF c.primary = <<>> \/ c.primary = OUT_OF_MEMORY THEN c
         ELSE The({IF currentValue.k = "err" THEN [c EXCEPT !.threw = TRUE]
                   ELSE The({IF text = Thrown THEN [c EXCEPT !.threw = TRUE]
                             ELSE [c EXCEPT !.primary = text]
                             : text \in {relevantPart(
                                   toString(toDecimalPlaces(
                                       unaryResult(operation, currentValue),
                                       MAX_DIGITS + BUFFER)),
                                   MAX_DIGITS)}})
                   : currentValue \in {getDecimal(c.primary)}})
         : c \in {c0}})

\* handleClearButton with a clear-entry that clears the memory as well
handleClearButtonEntryAndMemory(c0, id) ==
    The({CASE id \in {"a", "btn-ac"} ->
                [c EXCEPT !.equation = <<>>, !.primary = <<>>,
                          !.partial = D_0, !.memory = D_0]
           [] id \in {"c", "btn-cl"} -> [c EXCEPT !.primary = <<>>, !.memory = D_0]
           [] id \in {"Backspace", "btn-del"} ->
                IF c.allowChange
                THEN [c EXCEPT !.primary = removeLastChar(c.primary)]
                ELSE [c EXCEPT !.primary = <<>>, !.allowChange = TRUE]
           [] OTHER -> [c EXCEPT !.threw = TRUE]
         : c \in {c0}})

\* handleClearButton with a clear-entry that forgets the pending operation
handleClearButtonForgetting(c0, id) ==
    The({CASE id \in {"a", "btn-ac"} ->
                [c EXCEPT !.equation = <<>>, !.primary = <<>>,
                          !.partial = D_0, !.memory = D_0]
           [] id \in {"c", "btn-cl"} ->
                [c EXCEPT !.primary = <<>>, !.lastOperation = "undefined"]
           [] id \in {"Backspace", "btn-del"} ->
                IF c.allowChange
                THEN [c EXCEPT !.primary = removeLastChar(c.primary)]
                ELSE [c EXCEPT !.primary = <<>>, !.allowChange = TRUE]
           [] OTHER -> [c EXCEPT !.threw = TRUE]
         : c \in {c0}})

\* handleClearButton with an all-clear that leaves the memory alone
handleClearButtonKeepingMemory(c0, id) ==
    The({CASE id \in {"a", "btn-ac"} ->
                [c EXCEPT !.equation = <<>>, !.primary = <<>>, !.partial = D_0]
           [] id \in {"c", "btn-cl"} -> [c EXCEPT !.primary = <<>>]
           [] id \in {"Backspace", "btn-del"} ->
                IF c.allowChange
                THEN [c EXCEPT !.primary = removeLastChar(c.primary)]
                ELSE [c EXCEPT !.primary = <<>>, !.allowChange = TRUE]
           [] OTHER -> [c EXCEPT !.threw = TRUE]
         : c \in {c0}})

\* handleClearButton with a backspace that removes one character after a
\* result as well
handleClearButtonTrimming(c0, id) ==
    The({CASE id \in {"a", "btn-ac"} ->
                [c EXCEPT !.equation = <<>>, !.primary = <<>>,
                          !.partial = D_0, !.memory = D_0]
           [] id \in {"c", "btn-cl"} -> [c EXCEPT !.primary = <<>>]
           [] id \in {"Backspace", "btn-del"} ->
                [c EXCEPT !.primary = removeLastChar(c.primary), !.allowChange = TRUE]
           [] OTHER -> [c EXCEPT !.threw = TRUE]
         : c \in {c0}})

handleClearButton(c0, id) ==
    The({CASE id \in {"a", "btn-ac"} ->
                [c EXCEPT !.equation = <<>>, !.primary = <<>>,
                          !.partial = D_0, !.memory = D_0]
           [] id \in {"c", "btn-cl"} -> [c EXCEPT !.primary = <<>>]
           [] id \in {"Backspace", "btn-del"} ->
                IF c.allowChange
                THEN [c EXCEPT !.primary = removeLastChar(c.primary)]
                ELSE [c EXCEPT !.primary = <<>>, !.allowChange = TRUE]
           [] OTHER -> [c EXCEPT !.threw = TRUE]
         : c \in {c0}})

\* new Decimal(relevantPart(calculator.primary, MAX_DIGITS))
memoryOperand(primary) ==
    The({IF text = Thrown THEN DecimalError ELSE Decimal(text)
         : text \in {relevantPart(primary, MAX_DIGITS)}})

handleMemoryButton(c0, id) ==
    The({CASE id = "btn-mc" -> [c EXCEPT !.memory = D_0]
           [] id = "btn-mr" ->
                The({IF text = Thrown THEN [c EXCEPT !.threw = TRUE]
                     ELSE [c EXCEPT !.primary = text]
                     : text \in {relevantPart(toString(c.memory), MAX_DIGITS)}})
           [] id = "btn-mp" ->
                The({IF value.k = "err" THEN [c EXCEPT !.threw = TRUE]
                     ELSE [c EXCEPT !.memory = add(c.memory, value), !.allowChange = FALSE]
                     : value \in {memoryOperand(c.primary)}})
           [] id = "btn-mm" ->
                The({IF value.k = "err" THEN [c EXCEPT !.threw = TRUE]
                     ELSE [c EXCEPT !.memory = sub(c.memory, value), !.allowChange = FALSE]
                     : value \in {memoryOperand(c.primary)}})
           [] OTHER -> [c EXCEPT !.threw = TRUE]
         : c \in {c0}})

\* ------------------------------------------------------------------------
\* The calculator object and the event listeners

VARIABLES
    memory,           \* calculator.memory
    partial,          \* calculator.partial
    lastOperation,    \* calculator.lastOperation: the name of an operation function
    primary,          \* calculator.primary
    equation,         \* calculator.equation
    allowChange,      \* calculator.allowChange
    equationDisplay,  \* calculator.equationDisplay.innerHTML
    primaryDisplay,   \* calculator.primaryDisplay.innerHTML
    threw,            \* the last listener ended in an uncaught exception
    hist,             \* the buttons and keys whose listener has run, in that order
    timers,           \* the keys of the setTimeout callbacks not yet run, oldest first
    events,           \* the clicks and key presses, in the order the user made them
    value,            \* a literal handed to relevantPart on its own
    precision,        \* the precision it is formatted at
    formats           \* what relevantPart made of it, and of its own result

vars ==
    <<memory, partial, lastOperation, primary, equation, allowChange,
      equationDisplay, primaryDisplay, threw, hist, timers, events, value, precision,
      formats>>

formatVars == <<value, precision, formats>>

DigitTokens == {"0", "1", "2", "3", "4", "5", "6", "7", "8", "9", "."}

BinaryTokens == {"add", "sub", "mul", "div"}

UnaryTokens == {"rcp", "pct", "sqrt", "sqr", "pm"}

ClearTokens == {"btn-ac", "btn-cl", "btn-del"}

MemoryTokens == {"btn-mc", "btn-mr", "btn-mp", "btn-mm"}

\* the calculator object as a listener finds it
calculator ==
    [memory |-> memory, partial |-> partial, lastOperation |-> lastOperation,
     primary |-> primary, equation |-> equation, allowChange |-> allowChange,
     equationDisplay |-> equationDisplay, primaryDisplay |-> primaryDisplay,
     threw |-> FALSE]

\* a click listener: the handler, then updateDisplays unless the handler threw
listener(c0) == The({IF c.threw THEN c ELSE updateDisplays(c) : c \in {c0}})

\* a click: the event is handled as it is made, c0 being what the handler
\* for token leaves
Commit(c0, token) ==
    \E c \in {listener(c0)} :
        /\ memory' = c.memory
        /\ partial' = c.partial
        /\ lastOperation' = c.lastOperation
        /\ primary' = c.primary
        /\ equation' = c.equation
        /\ allowChange' = c.allowChange
        /\ equationDisplay' = c.equationDisplay
        /\ primaryDisplay' = c.primaryDisplay
        /\ threw' = c.threw
        /\ hist' = Append(hist, token)
        /\ events' = Append(events, token)
        /\ UNCHANGED timers
        /\ UNCHANGED formatVars

\* the calculator literal, and the updateDisplays call that ends the script
Init ==
    /\ memory = D_0
    /\ partial = D_0
    /\ primary = <<>>
    /\ equation = <<>>
    /\ lastOperation = "undefined"
    /\ allowChange = TRUE
    /\ equationDisplay = ZeroDot
    /\ primaryDisplay = ZeroDot
    /\ threw = FALSE
    /\ hist = <<>>
    /\ timers = <<>>
    /\ events = <<>>
    /\ value = <<>>
    /\ precision = MAX_DIGITS
    /\ formats = <<>>

Digit(digit) == Commit(handleDigit(calculator, digit), digit)

BinaryOperation(operation) ==
    Commit(handleBinaryOperation(calculator, operation), operation)

Equals == Commit(handleEquals(calculator), "eq")

UnaryOperation(operation) ==
    Commit(handleUnaryOperation(calculator, operation), operation)

ClearButton(id) == Commit(handleClearButton(calculator, id), id)

MemoryButton(id) == Commit(handleMemoryButton(calculator, id), id)

\* ------------------------------------------------------------------------
\* Any button, a few clicks deep

\* the number of clicks followed
MaxTokens == 3

\* the digit buttons clicked where any button may be
SomeDigits == {"0", "2", "9", "."}

Next ==
    \/ \E digit \in SomeDigits : Len(hist) < MaxTokens /\ Digit(digit)
    \/ \E operation \in BinaryTokens : Len(hist) < MaxTokens /\ BinaryOperation(operation)
    \/ Len(hist) < MaxTokens /\ Equals
    \/ \E operation \in UnaryTokens : Len(hist) < MaxTokens /\ UnaryOperation(operation)
    \/ \E id \in ClearTokens : Len(hist) < MaxTokens /\ ClearButton(id)
    \/ \E id \in MemoryTokens : Len(hist) < MaxTokens /\ MemoryButton(id)

Spec == Init /\ [][Next]_vars

\* the button clicked last
LastToken == IF hist = <<>> THEN "" ELSE hist[Len(hist)]

\* the number of characters of str other than the decimal point
NonDotLength(str) == Cardinality({i \in 1..Len(str) : str[i] # "."})

\* ------------------------------------------------------------------------
\* a, op1, b, op2, c, equals: one-digit operands around two binary operations

Operands == {"0", "2", "3", "4", "5"}

ChainNext ==
    \/ \E digit \in Operands : Len(hist) \in {0, 2, 4} /\ Digit(digit)
    \/ \E operation \in BinaryTokens : Len(hist) \in {1, 3} /\ BinaryOperation(operation)
    \/ Len(hist) = 5 /\ Equals

ChainSpec == Init /\ [][ChainNext]_vars

\* the value of x op y for the binary button op
Applied(op, x, y) ==
    CASE op = "add" -> add(x, y)
      [] op = "sub" -> sub(x, y)
      [] op = "mul" -> mul(x, y)
      [] op = "div" -> div(x, y)

\* the text the primary display has for the value x
Shown(x) ==
    relevantPart(toString(toDecimalPlaces(x, MAX_DIGITS + BUFFER)), MAX_DIGITS)

\* C1: after the buttons a, op1, b, op2, c, equals the primary display shows
\* (a op1 b) op2 c, for any one-digit operands and any two binary operations.
C1_ChainsLeftToRight ==
    Len(hist) = 6 =>
        primaryDisplay =
            Shown(Applied(hist[4],
                          Applied(hist[2], Decimal(<<hist[1]>>), Decimal(<<hist[3]>>)),
                          Decimal(<<hist[5]>>)))

\* C2: primary is the sentinel or has at most MAX_DIGITS characters other
\* than the decimal point, in every state.
C2_DigitBudget == primary = OUT_OF_MEMORY \/ NonDotLength(primary) <= MAX_DIGITS

\* C3: no button's listener ends in an uncaught exception, in any state.
C3_Total == ~threw

\* ------------------------------------------------------------------------
\* Buttons that leave the sentinel in primary, then any button

\* 4.5 squared five times has 21 digits before its decimal point
SentinelScript == <<"4", ".", "5", "sqr", "sqr", "sqr", "sqr", "sqr">>

\* the number of clicks followed after the script
MaxAfterSentinel == 2

\* token is the next button of the script, or the script is over
ScriptAllows(token) ==
    IF Len(hist) < Len(SentinelScript)
    THEN token = SentinelScript[Len(hist) + 1]
    ELSE Len(hist) < Len(SentinelScript) + MaxAfterSentinel

SentinelNext ==
    \/ \E digit \in SomeDigits \cup {"4", "5"} : ScriptAllows(digit) /\ Digit(digit)
    \/ \E operation \in BinaryTokens : ScriptAllows(operation) /\ BinaryOperation(operation)
    \/ ScriptAllows("eq") /\ Equals
    \/ \E operation \in UnaryTokens : ScriptAllows(operation) /\ UnaryOperation(operation)
    \/ \E id \in ClearTokens : ScriptAllows(id) /\ ClearButton(id)
    \/ \E id \in MemoryTokens : ScriptAllows(id) /\ MemoryButton(id)

SentinelSpec == Init /\ [][SentinelNext]_vars

\* the buttons that compute with primary
ArithmeticTokens == {"eq"} \cup BinaryTokens \cup UnaryTokens \cup {"btn-mp", "btn-mm"}

\* C4: while primary is the sentinel, equals, a binary or unary operation,
\* memory-add and memory-subtract do not compute with it: the click completes
\* and partial and memory keep their values.
C4_NoArithmeticOnSentinel ==
    [][(primary = OUT_OF_MEMORY /\ hist' # hist /\ hist'[Len(hist')] \in ArithmeticTokens)
       => (~threw' /\ partial' = partial /\ memory' = memory)]_vars

\* ------------------------------------------------------------------------
\* The digit 9 over and over, and equals

MaxNines == 21

MaxEquals == 2

\* the number of clicks of token so far
Clicks(token) == Cardinality({i \in 1..Len(hist) : hist[i] = token})

NinesNext ==
    \/ Clicks("9") < MaxNines /\ Digit("9")
    \/ Clicks("eq") < MaxEquals /\ Equals

NinesSpec == Init /\ [][NinesNext]_vars

\* C5: after 21 nines and equals, primary is the sentinel and allowChange
\* is false.
C5_Overflow ==
    hist = [i \in 1..21 |-> "9"] \o <<"eq">> =>
        (primary = OUT_OF_MEMORY /\ allowChange = FALSE)

\* ------------------------------------------------------------------------
\* The memory buttons, a digit and the clear buttons

MaxMemoryTokens == 4

MemoryNext ==
    \/ Len(hist) < MaxMemoryTokens /\ Digit("7")
    \/ \E id \in {"btn-ac", "btn-cl"} : Len(hist) < MaxMemoryTokens /\ ClearButton(id)
    \/ \E id \in MemoryTokens : Len(hist) < MaxMemoryTokens /\ MemoryButton(id)

MemorySpec == Init /\ [][MemoryNext]_vars

\* C6 as stated: 7, memory-add, all-clear, memory-recall shows "7.".
C6_RoundTrip ==
    hist = <<"7", "btn-mp", "btn-ac", "btn-mr">> => primaryDisplay = <<"7", ".">>

\* C6 as amended: after 7, memory-add, one more button and memory-recall the
\* primary display shows "7." when that button is clear-entry, a digit or
\* memory-recall, and "0." when it is all-clear, which resets the memory as
\* memory-clear does.
C6_RecallAfterClear ==
    \A token \in {"7", "btn-cl", "btn-mr", "btn-ac", "btn-mc"} :
        hist = <<"7", "btn-mp", token, "btn-mr">> =>
            primaryDisplay = IF token \in {"btn-ac", "btn-mc"} THEN <<"0", ".">>
                             ELSE <<"7", ".">>

C6_Witness ==
    /\ hist = <<"7", "btn-mp", "btn-ac", "btn-mr">>
    /\ primaryDisplay = <<"0", ".">>
    /\ memory = D_0

\* ------------------------------------------------------------------------
\* Operands and binary operations

MaxOperatorTokens == 4

OperatorNext ==
    \/ \E digit \in {"2", "5", "."} : Len(hist) < MaxOperatorTokens /\ Digit(digit)
    \/ \E operation \in BinaryTokens :
           Len(hist) < MaxOperatorTokens /\ BinaryOperation(operation)
    \/ Len(hist) < MaxOperatorTokens /\ Equals

OperatorSpec == Init /\ [][OperatorNext]_vars

\* what the equation line shows for a binary button
Glyph(operation) ==
    CASE operation = "add" -> <<"+">>
      [] operation = "sub" -> <<"-">>
      [] operation = "mul" -> <<"&", "t", "i", "m", "e", "s", ";">>
      [] operation = "div" -> <<"&", "d", "i", "v", "i", "d", "e", ";">>

\* the operation function a binary button stands for
Pending(operation) ==
    CASE operation = "add" -> "addition"
      [] operation = "sub" -> "subtraction"
      [] operation = "mul" -> "multiplication"
      [] operation = "div" -> "division"

EndsWith(str, suffix) ==
    Len(str) >= Len(suffix) /\ SubSeq(str, Len(str) - Len(suffix) + 1, Len(str)) = suffix

\* a binary button is clicked while the equation ends in the glyph of old and
\* primary is empty: that glyph gives way to the new one and nothing else of
\* the equation changes, partial is kept, the operation is the new one
Replaced(old) ==
    /\ equation' = SubSeq(equation, 1, Len(equation) - Len(Glyph(old)))
                       \o Glyph(hist'[Len(hist')])
    /\ partial' = partial
    /\ primary' = <<>>
    /\ lastOperation' = Pending(hist'[Len(hist')])

\* the buttons so far are an operand typed digit by digit, then n binary ones
OperandThenOperations(n) ==
    /\ n >= 1
    /\ n < Len(hist)
    /\ \A i \in 1..(Len(hist) - n) : hist[i] \in DigitTokens
    /\ Cardinality({i \in 1..(Len(hist) - n) : hist[i] = "."}) <= 1
    /\ \A i \in (Len(hist) - n + 1)..Len(hist) : hist[i] \in BinaryTokens

\* C7: a binary operation clicked while the equation ends in an operation's
\* glyph and primary is empty replaces that glyph, one character or an entity,
\* appends no operand, keeps partial and becomes the pending operation; after
\* an operand and any number of binary operations the equation is the operand,
\* once, and the glyph of the last operation.
C7_OperatorReplacement ==
    /\ [][\A old \in BinaryTokens :
             (/\ hist' # hist
              /\ hist'[Len(hist')] \in BinaryTokens
              /\ primary = <<>>
              /\ EndsWith(equation, Glyph(old)))
             => Replaced(old)]_vars
    /\ [](\A n \in 1..Len(hist) :
             OperandThenOperations(n) =>
                 /\ equation = relevantPart(SubSeq(hist, 1, Len(hist) - n),
                                            EQUATION_PRECISION)
                                   \o Glyph(hist[Len(hist)])
                 /\ lastOperation = Pending(hist[Len(hist)]))

C7_Witness ==
    /\ hist = <<"5", "add", "mul">>
    /\ equation = <<"5", ".", "&", "t", "i", "m", "e", "s", ";">>
    /\ lastOperation = "multiplication"

\* ------------------------------------------------------------------------
\* Results and the backspace button

MaxBackspaceTokens == 5

BackspaceNext ==
    \/ \E digit \in {"2", "3"} : Len(hist) < MaxBackspaceTokens /\ Digit(digit)
    \/ Len(hist) < MaxBackspaceTokens /\ BinaryOperation("add")
    \/ Len(hist) < MaxBackspaceTokens /\ Equals
    \/ Len(hist) < MaxBackspaceTokens /\ ClearButton("btn-del")
    \/ Len(hist) < MaxBackspaceTokens /\ MemoryButton("btn-mp")

BackspaceSpec == Init /\ [][BackspaceNext]_vars

\* C8: a backspace while allowChange is false empties primary and sets
\* allowChange, whatever primary held; after 2, +, 3, =, backspace primary is
\* empty.
C8_BackspaceAfterResult ==
    /\ [][(hist' # hist /\ hist'[Len(hist')] = "btn-del" /\ allowChange = FALSE)
          => (primary' = <<>> /\ allowChange' = TRUE)]_vars
    /\ [](hist = <<"2", "add", "3", "eq", "btn-del">> => primary = <<>>)

C8_Witness ==
    /\ hist = <<"2", "3", "btn-mp", "btn-del">>
    /\ primary = <<>>
    /\ allowChange = TRUE

\* ------------------------------------------------------------------------
\* relevantPart applied to a literal, then to its own output

MaxLiteralLength == 3
MaxFormats == 2

LiteralChars == {"0", "1", "9", ".", "-"}

\* texts past the length bound: whole numbers of eight, nine and twenty-one
\* digits, and a thousand and a tenth
LongLiterals ==
    {<<"9", "9", "9", "9", "9", "9", "9", "9">>,
     <<"1", "0", "0", "0", ".", "1">>,
     <<"1", "0", "0", "0", "0", "0", "0", "0", "0">>,
     <<"1", "2", "3", "4", "5", "6", "7", "8", "9", "0", "1", "2", "3", "4", "5", "6",
       "7", "8", "9", "0", "1">>}

\* the texts new Decimal accepts as a finite number
Literals ==
    {str \in UNION {[1..n -> LiteralChars] : n \in 1..MaxLiteralLength} \cup LongLiterals :
        Decimal(str).k = "num"}

FormatInit ==
    \E str \in Literals, p \in {MAX_DIGITS, EQUATION_PRECISION} :
        /\ memory = D_0 /\ partial = D_0 /\ primary = <<>> /\ equation = <<>>
        /\ lastOperation = "undefined" /\ allowChange = TRUE
        /\ equationDisplay = ZeroDot /\ primaryDisplay = ZeroDot
        /\ threw = FALSE /\ hist = <<>> /\ timers = <<>> /\ events = <<>>
        /\ value = str /\ precision = p /\ formats = <<>>

\* relevantPart(value, precision), then relevantPart of what it returned
Format ==
    /\ Len(formats) < MaxFormats
    /\ IF formats = <<>> THEN TRUE ELSE formats[Len(formats)] # Thrown
    /\ formats' = Append(formats,
                         relevantPart(IF formats = <<>> THEN value
                                      ELSE formats[Len(formats)], precision))
    /\ UNCHANGED <<memory, partial, lastOperation, primary, equation, allowChange,
                   equationDisplay, primaryDisplay, threw, hist, timers, events,
                   value, precision>>

FormatNext == Format

FormatSpec == FormatInit /\ [][FormatNext]_vars

\* C9: formatting the formatted text of a valid literal, at the same
\* precision, returns that text again.
C9_Idempotent == Len(formats) = 2 => formats[2] = formats[1]

\* C10: after all-clear the equation and primary are empty, partial and
\* memory are zero and allowChange is true.
C10_AllClear ==
    LastToken = "btn-ac" =>
        /\ equation = <<>>
        /\ primary = <<>>
        /\ partial = D_0
        /\ memory = D_0
        /\ allowChange = TRUE

\* ------------------------------------------------------------------------
\* Single handlers, over every state the buttons of Spec reach

\* the button of the step just taken
Clicked(token) == hist' # hist /\ hist'[Len(hist')] = token

\* C11: memory-recall, in any state, sets primary to the memory formatted at
\* MAX_DIGITS and sets allowChange.
C11_MemoryRecall ==
    [][Clicked("btn-mr") =>
           /\ primary' = relevantPart(toString(memory), MAX_DIGITS)
           /\ allowChange' = TRUE]_vars

\* what memory-add and memory-subtract take from primary
MemoryOperand == Decimal(relevantPart(primary, MAX_DIGITS))

\* C12: memory-add (memory-subtract), in any state, completes, sets memory to
\* memory plus (minus) the value of primary formatted at MAX_DIGITS, an empty
\* primary counting as 0, keeps primary, equation, partial and lastOperation
\* and clears allowChange.
C12_MemoryAddSubtract ==
    [][(Clicked("btn-mp") \/ Clicked("btn-mm")) =>
           /\ ~threw'
           /\ memory' = IF Clicked("btn-mp") THEN add(memory, MemoryOperand)
                        ELSE sub(memory, MemoryOperand)
           /\ primary' = primary
           /\ equation' = equation
           /\ partial' = partial
           /\ lastOperation' = lastOperation
           /\ allowChange' = FALSE]_vars

\* ------------------------------------------------------------------------
\* Equals after a binary operation, with operands that digits, 1/x and a
\* division by zero leave in primary

MaxPendingTokens == 4

PendingNext ==
    \/ \E digit \in {"2", "."} : Len(hist) < MaxPendingTokens /\ Digit(digit)
    \/ \E operation \in {"add", "div"} :
           Len(hist) < MaxPendingTokens /\ BinaryOperation(operation)
    \/ Len(hist) < MaxPendingTokens /\ UnaryOperation("rcp")
    \/ Len(hist) < MaxPendingTokens /\ Equals

PendingSpec == Init /\ [][PendingNext]_vars

\* the right operand of equals: the value of primary, 0 when there is none
EqualsOperand ==
    IF primary = <<>> \/ primary = <<".">> THEN D_0 ELSE Decimal(primary)

\* C13: equals with a pending operation completes, sets partial to that
\* operation applied to partial and the value of primary (0 when primary is
\* empty), clears lastOperation, sets primary to the text of the new partial
\* at MAX_DIGITS + BUFFER places, empties equation and clears allowChange.
C13_EqualsResolves ==
    [][(Clicked("eq") /\ lastOperation # "undefined") =>
           /\ ~threw'
           /\ partial' = lastOperationOf(lastOperation, partial, EqualsOperand)
           /\ lastOperation' = "undefined"
           /\ primary' = toString(toDecimalPlaces(partial', MAX_DIGITS + BUFFER))
           /\ equation' = <<>>
           /\ allowChange' = FALSE]_vars

\* the fields of the calculator and the two display lines
fields ==
    <<memory, partial, lastOperation, primary, equation, allowChange,
      equationDisplay, primaryDisplay>>

\* C14: equals with no pending operation changes no field, and an equals
\* right after an equals changes none either.
C14_EqualsIdle ==
    /\ [][(Clicked("eq") /\ lastOperation = "undefined") => UNCHANGED fields]_vars
    /\ [][(Clicked("eq") /\ LastToken = "eq") => UNCHANGED fields]_vars

C14_Witness ==
    /\ hist = <<"add", "2", "eq", "eq">>
    /\ primary = <<"2">>
    /\ lastOperation = "undefined"
    /\ allowChange = FALSE

\* ------------------------------------------------------------------------
\* Digits after equals and after memory-add

MaxLockedTokens == 5

LockedNext ==
    \/ \E digit \in {"0", "2", "."} : Len(hist) < MaxLockedTokens /\ Digit(digit)
    \/ Len(hist) < MaxLockedTokens /\ BinaryOperation("add")
    \/ Len(hist) < MaxLockedTokens /\ Equals
    \/ Len(hist) < MaxLockedTokens /\ MemoryButton("btn-mp")

LockedSpec == Init /\ [][LockedNext]_vars

\* C15: a digit clicked while allowChange is false sets allowChange and
\* leaves primary holding that digit alone, or nothing when the digit is 0:
\* it is not appended to the result.
C15_DigitAfterResult ==
    [][\A digit \in DigitTokens :
           (Clicked(digit) /\ allowChange = FALSE) =>
               /\ allowChange' = TRUE
               /\ primary' = IF digit = "0" THEN <<>> ELSE <<digit>>]_vars

C15_Witness ==
    /\ hist = <<"2", "add", "2", "eq", "2">>
    /\ primary = <<"2">>
    /\ partial = Decimal(<<"4">>)
    /\ allowChange = TRUE

\* ------------------------------------------------------------------------
\* Decimal points: digits around unary operations, equals, memory-recall and
\* backspace

MaxDotTokens == 4

DotNext ==
    \/ \E digit \in {"2", "."} : Len(hist) < MaxDotTokens /\ Digit(digit)
    \/ \E operation \in {"rcp", "sqrt"} :
           Len(hist) < MaxDotTokens /\ UnaryOperation(operation)
    \/ Len(hist) < MaxDotTokens /\ BinaryOperation("div")
    \/ Len(hist) < MaxDotTokens /\ Equals
    \/ \E id \in {"btn-mp", "btn-mr"} : Len(hist) < MaxDotTokens /\ MemoryButton(id)
    \/ Len(hist) < MaxDotTokens /\ ClearButton("btn-del")

DotSpec == Init /\ [][DotNext]_vars

\* the number of decimal points of str
Dots(str) == Cardinality({i \in 1..Len(str) : str[i] = "."})

\* C16: primary never holds more than one decimal point, and a decimal point
\* clicked in Entry mode when primary has one changes no field.
C16_OneDot ==
    /\ [](Dots(primary) <= 1)
    /\ [][(Clicked(".") /\ allowChange /\ Dots(primary) = 1) => UNCHANGED fields]_vars

C16_Witness ==
    /\ hist = <<"2", "rcp", ".", "2">>
    /\ primary = <<"0", ".", "5", "2">>

\* C17: primary is the sentinel or is made of digits and at most one decimal
\* point, with no sign, exponent or other character.
C17_CanonicalPrimary ==
    \/ primary = OUT_OF_MEMORY
    \/ /\ \A i \in 1..Len(primary) : IsDigitChar(primary[i]) \/ primary[i] = "."
       /\ Dots(primary) <= 1

\* ------------------------------------------------------------------------
\* An operand of zeros and ones, then squares, additions and equals

MaxOperandDigits == 5
MaxOperations == 3

EquationNext ==
    \/ \E digit \in {"0", "1"} : Len(hist) < MaxOperandDigits /\ Digit(digit)
    \/ /\ Len(hist) >= MaxOperandDigits
       /\ Len(hist) < MaxOperandDigits + MaxOperations
       /\ BinaryOperation("add")
    \/ /\ Len(hist) >= MaxOperandDigits
       /\ Len(hist) < MaxOperandDigits + MaxOperations
       /\ UnaryOperation("sqr")
    \/ /\ Len(hist) >= MaxOperandDigits
       /\ Len(hist) < MaxOperandDigits + MaxOperations
       /\ Equals

EquationSpec == Init /\ [][EquationNext]_vars

\* the equation without the glyph at its end
EquationOperand ==
    IF \E operation \in BinaryTokens : EndsWith(equation, Glyph(operation))
    THEN The({SubSeq(equation, 1, Len(equation) - Len(Glyph(operation)))
              : operation \in {o \in BinaryTokens : EndsWith(equation, Glyph(o))}})
    ELSE equation

\* the number of digits that follow the decimal point of str
FractionDigits(str) ==
    IF ~includes(str, <<".">>) THEN 0
    ELSE Cardinality({n \in 1..(Len(str) - indexOf(str, ".") - 1) :
             \A i \in 1..n : IsDigitChar(str[indexOf(str, ".") + 1 + i])})

\* C18: the operand text in equation has at most EQUATION_PRECISION digits
\* after its decimal point.
C18_EquationPrecision ==
    equation = OUT_OF_MEMORY \/ FractionDigits(EquationOperand) <= EQUATION_PRECISION

\* ------------------------------------------------------------------------
\* Two calculators that differ in partial only, given the same clicks

MaxPartialTokens == 5
MaxContinuation == 2

PartialTokens == {"2", "add", "eq", "btn-cl"}

PartialNext ==
    \/ Len(hist) < MaxPartialTokens /\ Digit("2")
    \/ Len(hist) < MaxPartialTokens /\ BinaryOperation("add")
    \/ Len(hist) < MaxPartialTokens /\ Equals
    \/ Len(hist) < MaxPartialTokens /\ ClearButton("btn-cl")

PartialSpec == Init /\ [][PartialNext]_vars

\* the handler a click listener calls for a button
handlerOf(c, token) ==
    IF token \in DigitTokens THEN handleDigit(c, token)
    ELSE IF token \in BinaryTokens THEN handleBinaryOperation(c, token)
    ELSE IF token = "eq" THEN handleEquals(c)
    ELSE IF token \in UnaryTokens THEN handleUnaryOperation(c, token)
    ELSE IF token \in ClearTokens THEN handleClearButton(c, token)
    ELSE handleMemoryButton(c, token)

\* the calculator object after a click
Press(c0, token) ==
    The({listener(handlerOf([c EXCEPT !.threw = FALSE], token)) : c \in {c0}})

\* the calculator object after the clicks tokens[i], tokens[i + 1], ...
RECURSIVE RunFrom(_, _, _)
RunFrom(c0, tokens, i) ==
    IF i > Len(tokens) THEN c0
    ELSE The({RunFrom(c, tokens, i + 1) : c \in {Press(c0, tokens[i])}})

\* the calculator literal after updateDisplays
Fresh ==
    [memory |-> D_0, partial |-> D_0, lastOperation |-> "undefined",
     primary |-> <<>>, equation |-> <<>>, allowChange |-> TRUE,
     equationDisplay |-> ZeroDot, primaryDisplay |-> ZeroDot, threw |-> FALSE]

\* the calculator objects that up to MaxPartialTokens clicks lead to
Reached ==
    {RunFrom(Fresh, tokens, 1) :
        tokens \in UNION {[1..n -> PartialTokens] : n \in 0..MaxPartialTokens}}

Continuations == UNION {[1..n -> PartialTokens] : n \in 1..MaxContinuation}

\* C19: a reachable calculator that differs from this one in partial only,
\* no operation pending, shows the same primary and equation after the same
\* clicks.
C19_PartialUnused ==
    lastOperation = "undefined" =>
        \A twin \in Reached :
            [twin EXCEPT !.threw = FALSE] = [calculator EXCEPT !.partial = twin.partial] =>
                \A tokens \in Continuations :
                    /\ RunFrom(twin, tokens, 1).primary
                           = RunFrom(calculator, tokens, 1).primary
                    /\ RunFrom(twin, tokens, 1).equation
                           = RunFrom(calculator, tokens, 1).equation

\* C20: a unary operation clicked while primary is empty or the sentinel
\* completes and changes no field.
C20_UnaryIdle ==
    [][\A operation \in UnaryTokens :
           (Clicked(operation) /\ (primary = <<>> \/ primary = OUT_OF_MEMORY)) =>
               (~threw' /\ UNCHANGED fields)]_vars

C20_Witness ==
    /\ hist = SentinelScript \o <<"btn-cl", "pm">>
    /\ primary = <<>>
    /\ primaryDisplay = ZeroDot
    /\ ~threw

\* ------------------------------------------------------------------------
\* 2, a binary operation, 4.5, then unary operations and equals

MaxUnary == 5

RightOperand == <<"4", ".", "5">>

UnaryNext ==
    \/ Len(hist) = 0 /\ Digit("2")
    \/ \E operation \in {"add", "mul"} : Len(hist) = 1 /\ BinaryOperation(operation)
    \/ /\ Len(hist) >= 2
       /\ Len(hist) < 2 + Len(RightOperand)
       /\ Digit(RightOperand[Len(hist) - 1])
    \/ \E operation \in {"sqr", "sqrt", "pm"} :
           /\ Len(hist) >= 2 + Len(RightOperand)
           /\ Len(hist) < 2 + Len(RightOperand) + MaxUnary
           /\ UnaryOperation(operation)
    \/ /\ Len(hist) >= 2 + Len(RightOperand)
       /\ Len(hist) < 2 + Len(RightOperand) + MaxUnary
       /\ Equals

UnarySpec == Init /\ [][UnaryNext]_vars

\* a unary operation is clicked on a primary that is neither empty nor the
\* sentinel
UnaryApplied ==
    /\ hist' # hist
    /\ hist'[Len(hist')] \in UnaryTokens
    /\ primary # <<>>
    /\ primary # OUT_OF_MEMORY

\* C21 as stated: a unary operation on a primary that is neither empty nor
\* the sentinel keeps equation, partial, lastOperation, memory and allowChange.
C21_UnaryFrame ==
    [][UnaryApplied =>
           UNCHANGED <<equation, partial, lastOperation, memory, allowChange>>]_vars

\* C21 as amended: such a unary operation keeps memory and lastOperation; it
\* keeps equation, partial and allowChange as well unless its result is the
\* sentinel, and then the display refresh empties equation, zeroes partial
\* and clears allowChange.
C21_UnaryFrameOrOverflow ==
    [][UnaryApplied =>
           /\ UNCHANGED <<memory, lastOperation>>
           /\ IF primary' = OUT_OF_MEMORY
              THEN equation' = <<>> /\ partial' = D_0 /\ allowChange' = FALSE
              ELSE UNCHANGED <<equation, partial, allowChange>>]_vars

C21_Witness ==
    /\ hist = <<"2", "add", "4", ".", "5", "sqr", "sqr", "sqr", "sqr", "sqr">>
    /\ primary = OUT_OF_MEMORY
    /\ lastOperation = "addition"
    /\ partial = D_0
    /\ equation = <<>>

\* C22: clear-entry empties primary and keeps equation, partial, memory,
\* lastOperation and allowChange; an equals that follows it with an operation
\* pending applies that operation to partial and 0.
C22_ClearEntry ==
    /\ [][Clicked("btn-cl") =>
              /\ primary' = <<>>
              /\ UNCHANGED <<equation, partial, memory, lastOperation, allowChange>>]_vars
    /\ [][(Clicked("eq") /\ LastToken = "btn-cl" /\ lastOperation # "undefined") =>
              /\ partial' = lastOperationOf(lastOperation, partial, D_0)
              /\ primary' = toString(partial')]_vars

C22_Witness ==
    /\ hist = <<"2", "add", "2", "btn-cl", "eq">>
    /\ primary = <<"2">>
    /\ partial = Decimal(<<"2">>)
    /\ lastOperation = "undefined"

\* the number of digits of str
DigitCount(str) == Cardinality({i \in 1..Len(str) : IsDigitChar(str[i])})

\* C23: what relevantPart returns for a literal is the sentinel or has at
\* most MAX_DIGITS digits, sign and decimal point not counted.
C23_OverflowRule ==
    Len(formats) >= 1 =>
        formats[1] = OUT_OF_MEMORY \/ DigitCount(formats[1]) <= MAX_DIGITS

\* ------------------------------------------------------------------------
\* Binary operations on a primary that overflows: after 4.5 squared five
\* times, and after 12345678901234567812 + .1999 =

MaxAfterOverflow == 2

EquationOverflowScript ==
    <<"1", "2", "3", "4", "5", "6", "7", "8", "9", "0",
      "1", "2", "3", "4", "5", "6", "7", "8", "1", "2",
      "add", ".", "1", "9", "9", "9", "eq">>

OverflowScripts == {SentinelScript, EquationOverflowScript}

OverflowAllows(token) ==
    \E script \in OverflowScripts :
        IF Len(hist) < Len(script)
        THEN hist = SubSeq(script, 1, Len(hist)) /\ token = script[Len(hist) + 1]
        ELSE /\ SubSeq(hist, 1, Len(script)) = script
             /\ Len(hist) < Len(script) + MaxAfterOverflow

OverflowNext ==
    \/ \E digit \in DigitTokens : OverflowAllows(digit) /\ Digit(digit)
    \/ \E operation \in BinaryTokens : OverflowAllows(operation) /\ BinaryOperation(operation)
    \/ OverflowAllows("eq") /\ Equals
    \/ OverflowAllows("sqr") /\ UnaryOperation("sqr")
    \/ OverflowAllows("btn-cl") /\ ClearButton("btn-cl")

OverflowSpec == Init /\ [][OverflowNext]_vars

\* handleBinaryOperation, else branch: the calculator once a pending operation
\* has been completed
Resolved ==
    IF lastOperation = "undefined" THEN calculator
    ELSE listener(handleEquals(calculator))

\* a binary operation is clicked and does not replace the one at the end of
\* the equation
SnapshotTaken ==
    /\ hist' # hist
    /\ hist'[Len(hist')] \in BinaryTokens
    /\ ~(primary = <<>> /\ \E operation \in BinaryTokens :
                               EndsWith(equation, Glyph(operation)))
    /\ ~Resolved.threw

\* C24 as stated: when the primary a binary operation takes its snapshot of
\* formats to the sentinel at EQUATION_PRECISION, equation becomes the
\* sentinel, lastOperation is cleared, allowChange is cleared and primary is
\* kept.
C24_EquationFailure ==
    [][(SnapshotTaken /\ relevantPart(Resolved.primary, EQUATION_PRECISION) = OUT_OF_MEMORY) =>
           /\ equation' = OUT_OF_MEMORY
           /\ lastOperation' = "undefined"
           /\ allowChange' = FALSE
           /\ primary' = Resolved.primary]_vars

\* C24 as amended: as stated when that primary is not the sentinel itself;
\* when it is the sentinel, lastOperation and allowChange are cleared and
\* primary is kept, but equation is left empty.
C24_EquationFailureOrSentinel ==
    [][(SnapshotTaken /\ relevantPart(Resolved.primary, EQUATION_PRECISION) = OUT_OF_MEMORY) =>
           /\ equation' = IF Resolved.primary = OUT_OF_MEMORY THEN <<>> ELSE OUT_OF_MEMORY
           /\ lastOperation' = "undefined"
           /\ allowChange' = FALSE
           /\ primary' = Resolved.primary]_vars

C24_Witness ==
    /\ hist = EquationOverflowScript \o <<"mul">>
    /\ equation = OUT_OF_MEMORY
    /\ primary # OUT_OF_MEMORY
    /\ primary # <<>>
    /\ lastOperation = "undefined"
    /\ allowChange = FALSE

\* C25: in Entry mode a 0 clicked on an empty primary leaves it empty, any
\* other digit and the decimal point are appended to an empty primary, and on
\* a primary that is not empty 0 is appended as any other digit is: unless
\* the decimal point is there already or the digits are MAX_DIGITS.
C25_LeadingZero ==
    [][\A digit \in DigitTokens :
           (Clicked(digit) /\ allowChange) =>
               primary' =
                   IF primary = <<>> /\ digit = "0" THEN <<>>
                   ELSE IF digit = "." /\ Dots(primary) >= 1 THEN primary
                   ELSE IF Len(primary) - (IF digit = "." THEN 1 ELSE 0) >= MAX_DIGITS
                   THEN primary
                   ELSE primary \o <<digit>>]_vars

C25_Witness ==
    /\ hist = <<"0", "0", "2", "0", ".">>
    /\ primary = <<"2", "0", ".">>
    /\ allowChange = TRUE

\* a division was pending, equals was clicked on an empty primary, and the
\* last i clicks came after that
DividedByZero(i) ==
    /\ Len(hist) >= i + 2
    /\ hist[Len(hist) - i] = "eq"
    /\ hist[Len(hist) - i - 1] = "div"

\* C26: equals with a division pending and a zero right operand completes,
\* sets partial to NaN, clears lastOperation, empties equation and clears
\* allowChange; the clicks that follow complete as well.
C26_DivisionByZero ==
    /\ [][(Clicked("eq") /\ lastOperation = "division" /\ isZero(EqualsOperand)) =>
              /\ ~threw'
              /\ partial' = D_NaN
              /\ lastOperation' = "undefined"
              /\ equation' = <<>>
              /\ allowChange' = FALSE]_vars
    /\ []((\E i \in 0..Len(hist) : DividedByZero(i)) => ~threw)

\* C27: whenever primary is the sentinel, a digit click completes, sets
\* allowChange and leaves primary holding that digit alone (empty when the
\* digit is a suppressed 0).
C27_DigitAfterSentinel ==
    [][\A digit \in DigitTokens :
          (primary = OUT_OF_MEMORY /\ Clicked(digit)) =>
              /\ ~threw'
              /\ allowChange' = TRUE
              /\ primary' = (IF digit = "0" THEN <<>> ELSE <<digit>>)]_vars

\* the sentinel was shown and the digit 5 after it started a new operand
C27_Witness ==
    /\ hist = SentinelScript \o <<"5">>
    /\ primary = <<"5">>
    /\ allowChange = TRUE
    /\ primaryDisplay = <<"5", ".">>

\* ------------------------------------------------------------------------
\* All-clear among operands, operators and equals

MaxAllClearTokens == 5

AllClearNext ==
    \/ \E digit \in {"2", "9"} : Len(hist) < MaxAllClearTokens /\ Digit(digit)
    \/ \E operation \in {"sub", "mul"} :
           Len(hist) < MaxAllClearTokens /\ BinaryOperation(operation)
    \/ Len(hist) < MaxAllClearTokens /\ Equals
    \/ Len(hist) < MaxAllClearTokens /\ ClearButton("btn-ac")

AllClearSpec == Init /\ [][AllClearNext]_vars

\* the last three clicks were all-clear, the digit and equals
ClearedThenEntered(digit) ==
    /\ Len(hist) >= 3
    /\ SubSeq(hist, Len(hist) - 2, Len(hist)) = <<"btn-ac", digit, "eq">>

\* C28: after all-clear, a digit and equals, the primary display shows that
\* digit, as it does from the initial state, whatever was clicked before the
\* all-clear.
C28_AllClearNothingPending ==
    \A digit \in DigitTokens \ {"0", "."} :
        ClearedThenEntered(digit) => ~threw /\ primaryDisplay = <<digit, ".">>

\* value rounded half-even to precision fractional digits, in plain notation
Rounded == toFixed(toDecimalPlaces(Decimal(value), precision))

\* the digits of str after its decimal point
FractionOf(str) ==
    IF indexOf(str, ".") < 0 THEN <<>> ELSE SubSeq(str, indexOf(str, ".") + 2, Len(str))

\* str as a display shows it: with a decimal point in any case
Pointed(str) == IF includes(str, <<".">>) THEN str ELSE str \o <<".">>

\* C29: a value within the digit limit whose rounded text has no run of zeros
\* in its fractional part (and no run of nines at all) is formatted as that
\* rounded text, its fractional digits intact; zeros in the integer part do
\* not matter.
C29_TruncationOnlyOnFraction ==
    (/\ Len(formats) >= 1
     /\ DigitCount(Rounded) <= MAX_DIGITS
     /\ ~includes(FractionOf(Rounded), TRUNCATION_TRIGGER)
     /\ ~includes(Rounded, ROUND_UP_TRIGGER))
        => formats[1] = Pointed(Rounded)

\* C30: a value within the digit limit whose rounded text has no run of nines
\* in its fractional part (and no run of zeros at all) is formatted as that
\* rounded text; nines in the integer part do not matter, and a whole number
\* is shown as itself.
C30_RoundUpOnlyOnFraction ==
    (/\ Len(formats) >= 1
     /\ DigitCount(Rounded) <= MAX_DIGITS
     /\ ~includes(FractionOf(Rounded), ROUND_UP_TRIGGER)
     /\ ~includes(Rounded, TRUNCATION_TRIGGER))
        => formats[1] = Pointed(Rounded)

\* ------------------------------------------------------------------------
\* The same value through a unary operation and through a binary one

\* the clicks that multiply the operand typed by the clicks a by itself
SquaredByMultiplying(a) == a \o <<"mul">> \o a \o <<"eq">>

\* C31: an operand squared by the sqr button and the same operand multiplied
\* by itself with mul and equals are the same Decimal value, and the primary
\* display shows the same text after the two.
C31_SamePipeline ==
    (Len(hist) = MaxOperandDigits + 1 /\ hist[Len(hist)] = "sqr") =>
        primaryDisplay =
            RunFrom(Fresh, SquaredByMultiplying(SubSeq(hist, 1, MaxOperandDigits)), 1).primaryDisplay

\* ------------------------------------------------------------------------
\* The second operator of a chain

\* a op1 b for the one-digit operands and the operator clicked first
FirstResult == Applied(hist[2], Decimal(<<hist[1]>>), Decimal(<<hist[3]>>))

\* C32: after the buttons a, op1, b, op2 the equation is a op1 b formatted at
\* EQUATION_PRECISION followed by the glyph of op2, primary is empty, partial
\* is a op1 b and lastOperation is the operation of op2.
C32_SecondOperator ==
    Len(hist) = 4 =>
        /\ equation = relevantPart(toString(toDecimalPlaces(FirstResult, MAX_DIGITS + BUFFER)),
                                   EQUATION_PRECISION) \o Glyph(hist[4])
        /\ primary = <<>>
        /\ partial = FirstResult
        /\ lastOperation = Pending(hist[4])

\* ------------------------------------------------------------------------
\* One long operand: nines, with a decimal point near its start or its end

MaxEntry == 21

\* the clicks before which the decimal point button may be clicked
PointAt == {0, 1, MaxEntry - 2, MaxEntry - 1}

EntryNext ==
    \/ Len(hist) < MaxEntry /\ Digit("9")
    \/ Len(hist) \in PointAt /\ Digit(".")
    \/ Len(hist) \in PointAt /\ Digit("0")

EntrySpec == Init /\ [][EntryNext]_vars

\* C33: while allowChange is true, a digit other than a suppressed leading 0
\* is appended to primary exactly when primary has fewer than MAX_DIGITS
\* digits, the decimal point not counted, and a decimal point exactly when
\* primary has none; otherwise primary is left as it is.
C33_DigitBudget ==
    [][\A digit \in DigitTokens :
          (allowChange /\ Clicked(digit) /\ ~(digit = "0" /\ primary = <<>>)) =>
              primary' = IF digit = "."
                         THEN (IF includes(primary, <<".">>) THEN primary
                               ELSE primary \o <<digit>>)
                         ELSE (IF DigitCount(primary) < MAX_DIGITS
                               THEN primary \o <<digit>>
                               ELSE primary)]_vars

\* C34: an equation that is neither empty nor the sentinel ends in the glyph
\* of one binary operation, with no second glyph before it, and lastOperation
\* is that operation.
C34_EquationShowsPending ==
    (equation # <<>> /\ equation # OUT_OF_MEMORY) =>
        /\ \E operation \in BinaryTokens :
               EndsWith(equation, Glyph(operation)) /\ lastOperation = Pending(operation)
        /\ \A operation \in BinaryTokens : ~EndsWith(EquationOperand, Glyph(operation))

\* 2 + 5 was resolved by the multiplication button: the equation shows 7 and
\* the multiplication glyph, and multiplication is pending
C34_Witness ==
    /\ hist = <<"2", "add", "5", "mul">>
    /\ equation = <<"7", ".">> \o Glyph("mul")
    /\ lastOperation = "multiplication"

\* C35: in every state a listener has left without raising, a primary that
\* is the sentinel comes with allowChange false, an empty equation and a
\* partial of 0.
C35_SentinelState ==
    (~threw /\ primary = OUT_OF_MEMORY) =>
        /\ allowChange = FALSE
        /\ equation = <<>>
        /\ partial = D_0

\* 2 times 4.5 was pending when the fifth squaring overflowed: the equation
\* and partial were reset with the multiplication still pending
C35_Witness ==
    /\ hist = <<"2", "mul">> \o RightOperand \o <<"sqr", "sqr", "sqr", "sqr", "sqr">>
    /\ ~threw
    /\ primary = OUT_OF_MEMORY
    /\ allowChange = FALSE
    /\ equation = <<>>
    /\ partial = D_0
    /\ lastOperation = "multiplication"

\* the calculator object as the handler of the button just clicked left it,
\* before updateDisplays
Handled == handlerOf(calculator, hist'[Len(hist')])

\* C36: the display refresh that ends a click leaves primary, partial,
\* equation, memory, lastOperation and allowChange as the handler left them.
C36_RefreshIsPure ==
    [][hist' # hist =>
           \A handled \in {Handled} :
               ~handled.threw =>
                   /\ primary' = handled.primary
                   /\ partial' = handled.partial
                   /\ equation' = handled.equation
                   /\ memory' = handled.memory
                   /\ lastOperation' = handled.lastOperation
                   /\ allowChange' = handled.allowChange]_vars

\* C36 amended: the display refresh leaves memory and lastOperation as the
\* handler left them; it leaves primary, partial, equation and allowChange so
\* too unless it completes and the text it shows is the sentinel, and then it
\* sets primary to the sentinel, partial to 0, equation to empty and
\* allowChange to false.
C36_RefreshFreezesOnOverflow ==
    [][hist' # hist =>
           \A handled \in {Handled} :
               ~handled.threw =>
                   /\ memory' = handled.memory
                   /\ lastOperation' = handled.lastOperation
                   /\ IF ~threw' /\ primaryDisplay' = OUT_OF_MEMORY
                      THEN /\ primary' = OUT_OF_MEMORY
                           /\ partial' = D_0
                           /\ equation' = <<>>
                           /\ allowChange' = FALSE
                      ELSE /\ primary' = handled.primary
                           /\ partial' = handled.partial
                           /\ equation' = handled.equation
                           /\ allowChange' = handled.allowChange]_vars

\* the refresh after the fifth squaring found the sentinel with 2 + pending
\* and reset partial and the equation
C36_Witness ==
    /\ hist = <<"2", "add">> \o RightOperand \o <<"sqr", "sqr", "sqr", "sqr", "sqr">>
    /\ ~threw
    /\ primaryDisplay = OUT_OF_MEMORY
    /\ primary = OUT_OF_MEMORY
    /\ partial = D_0
    /\ equation = <<>>
    /\ allowChange = FALSE
    /\ lastOperation = "addition"

\* the buttons that write the memory
MemoryWriters == {"btn-mc", "btn-mp", "btn-mm", "btn-ac"}

\* C37: a click of any button other than memory-clear, memory-add,
\* memory-subtract and all-clear leaves memory unchanged, the display refresh
\* that ends the click included.
C37_MemoryIndependent ==
    [][(hist' # hist /\ hist'[Len(hist')] \notin MemoryWriters) => memory' = memory]_vars

\* 2 was added to the memory and squaring the 2 left the memory at 2
C37_Witness ==
    /\ hist = <<"2", "btn-mp", "sqr">>
    /\ memory = Decimal(<<"2">>)
    /\ primary = <<"4", ".">>

\* ------------------------------------------------------------------------
\* Key presses, which setTimeout hands on after KBD_INPUT_DELAY, among clicks

\* isClearCommand, for the keys pressed here
isClearCommand(input) == input \in {"Backspace", "a", "c"}

\* handleKeyBoardInput for the key event.key = input: the calculator object
\* it leaves
handleKeyBoardInput(c0, input) ==
    The({IF input \in {"=", "Enter"} THEN listener(handleEquals(c))
         ELSE IF isClearCommand(input) THEN listener(handleClearButton(c, input))
         ELSE IF isDigit(input) THEN listener(handleDigit(c, input))
         ELSE IF input \in {"+", "-", "*", "/"}
         THEN listener(handleBinaryOperation(c, input))
         ELSE updateDisplays(c)
         : c \in {c0}})

\* document.onkeydown: the handling of the key is put off with setTimeout
KeyDown(key) ==
    /\ timers' = Append(timers, key)
    /\ events' = Append(events, key)
    /\ UNCHANGED <<memory, partial, lastOperation, primary, equation, allowChange,
                   equationDisplay, primaryDisplay, threw, hist, value, precision,
                   formats>>

\* the oldest setTimeout callback runs: every delay is KBD_INPUT_DELAY, so
\* the callbacks run in the order they were set
Timeout ==
    /\ timers # <<>>
    /\ \E c \in {handleKeyBoardInput(calculator, Head(timers))} :
           /\ memory' = c.memory
           /\ partial' = c.partial
           /\ lastOperation' = c.lastOperation
           /\ primary' = c.primary
           /\ equation' = c.equation
           /\ allowChange' = c.allowChange
           /\ equationDisplay' = c.equationDisplay
           /\ primaryDisplay' = c.primaryDisplay
           /\ threw' = c.threw
    /\ hist' = Append(hist, Head(timers))
    /\ timers' = Tail(timers)
    /\ UNCHANGED <<events, value, precision, formats>>

MaxEvents == 4

\* the keys 3, + and = are pressed, the buttons 2, mul and eq clicked
DispatchNext ==
    \/ \E key \in {"3", "+", "="} : Len(events) < MaxEvents /\ KeyDown(key)
    \/ Timeout
    \/ Len(events) < MaxEvents /\ Digit("2")
    \/ Len(events) < MaxEvents /\ BinaryOperation("mul")
    \/ Len(events) < MaxEvents /\ Equals

DispatchSpec == Init /\ [][DispatchNext]_vars

\* C38: the listeners run in the order the clicks and key presses were made,
\* each once: what has been handled is what was made first, in the same
\* order, also for a key press followed by a click.
C38_InOrder ==
    /\ Len(hist) <= Len(events)
    /\ hist = SubSeq(events, 1, Len(hist))

====
